---- MODULE Spec2Model ----
(***************************************************************************)
(* LockedNonceManagerMiddleware (src/src/lib.rs): a nonce counter kept in  *)
(* a tokio RwLock<U256> next to an AtomicBool `initialized`, in front of   *)
(* an inner Middleware.  Tasks call initialize_nonce, next,                *)
(* fill_transaction and send_transaction concurrently; every `.await` of   *)
(* the source is a step boundary.                                          *)
(***************************************************************************)
EXTENDS Integers, FiniteSets, Sequences, TLC

\* ---------------------------------------------------------------- bounds
NumTasks == 2           \* concurrent callers of one manager
MaxCalls == 2           \* calls started over the manager's lifetime
MaxRemote == 2          \* largest transaction count / explicit nonce drawn

Tasks == 1..NumTasks
RemoteVals == 0..MaxRemote          \* results of inner.get_transaction_count
Errs == {"e1", "e2"}                \* M::Error values of the inner middleware
Handles == {"h1", "h2"}             \* PendingTransaction handles of the inner middleware

\* tx.nonce() of a draft that carries no nonce (Option::None)
NoNonce == -1
ExplicitNonces == {0, 2}            \* nonces a caller puts on a draft itself
TxNonces == {NoNonce} \cup ExplicitNonces

VARIABLES
    initialized,    \* AtomicBool
    nonce,          \* the U256 inside the RwLock
    writer,         \* task holding the RwLock write guard, 0 when none
    readers,        \* tasks holding a read guard
    task,           \* per task: position and locals of the call in progress
    calls,          \* calls started so far
    queries,        \* successful get_transaction_count calls made by get_or_init_nonce
    failedInit,     \* get_or_init_nonce queries that returned an error
    last,           \* the record of the call that returned last
    order           \* what the previous holder of the write guard in fill/send read

vars == <<initialized, nonce, writer, readers, task, calls, queries, failedInit, last,
          order>>

\* ------------------------------------------------------------ results
NoResult == [kind |-> "none", num |-> 0, tag |-> ""]
OkNonce(n) == [kind |-> "Ok", num |-> n, tag |-> "U256"]
OkUnit == [kind |-> "Ok", num |-> 0, tag |-> "unit"]
OkHandle(h) == [kind |-> "Ok", num |-> 0, tag |-> h]
\* what the inner middleware answered to a broadcast, before any wrapping
Raw(kind, tag) == [kind |-> kind, num |-> 0, tag |-> tag]

\* impl FromErr<M::Error> for NonceManagerError<M>
FromErr(e) == [kind |-> "MiddlewareError", num |-> 0, tag |-> e]

\* the counter written back without the increment
SuccessorForgotten(n) == n

\* the value written back after a successful fill or send
Successor(n) == n + 1

\* any remote count other than the local nonce taken as newer
StaleDiffers(current_nonce, n) == current_nonce # n

\* a rebroadcast also when the remote count equals the local nonce
StaleOrEqual(current_nonce, n) == current_nonce >= n

\* the condition under which send_transaction rebroadcasts
Stale(current_nonce, n) == current_nonce > n

Idle ==
    [pc |-> "idle", op |-> "none", arg |-> NoNonce, tx |-> NoNonce,
     local |-> 0, count |-> 0, err |-> "", sends |-> 0, retx |-> NoNonce,
     lazy |-> 0, recon |-> "none", src |-> "", out |-> NoResult,
     before |-> 0, after |-> 0, flagBefore |-> FALSE, flagAfter |-> FALSE,
     atInner |-> 0, prevSeen |-> NoNonce, chained |-> FALSE, solo |-> FALSE,
     tx1 |-> NoNonce, cerr |-> "", result |-> NoResult]

\* LockedNonceManagerMiddleware::new
Init ==
    /\ initialized = FALSE
    /\ nonce = 0
    /\ writer = 0
    /\ readers = {}
    /\ task = [p \in Tasks |-> Idle]
    /\ calls = 0
    /\ queries = 0
    /\ failedInit = 0
    /\ last = Idle
    /\ order = [prev |-> NoNonce, chain |-> FALSE]

\* ------------------------------------------------------------ the lock
\* tokio::sync::RwLock: one writer or several readers, not reentrant: a task
\* that awaits the lock while holding its write guard waits for itself.  Waiting
\* tasks are granted the lock in any order, which includes tokio's queue order.
\* a write guard handed out while read guards are held
CanWriteOverReaders == writer = 0

\* RwLock::write().await completes only when no guard is held
CanWrite == writer = 0 /\ readers = {}
\* a read guard handed out whatever is held
CanReadAlways == TRUE

\* RwLock::read().await completes only when no write guard is held
CanRead == writer = 0

\* a returning call drops the guards it holds
Dropped(p) == IF writer = p THEN 0 ELSE writer

\* the call of task p returns: its record is handed over as that of the call
\* that returned last, and the task is free for another call
Returns(p, rec) ==
    /\ last' = rec
    /\ task' = [task EXCEPT ![p] = Idle]

\* a call starts
Begin(p, op, e, at) ==
    /\ task[p].pc = "idle"
    /\ calls < MaxCalls
    /\ calls' = calls + 1
    /\ task' = [q \in Tasks |->
                  IF q = p
                  THEN [Idle EXCEPT !.pc = at, !.op = op, !.arg = e, !.tx = e,
                                    !.solo = \A o \in Tasks : task[o].pc = "idle"]
                  ELSE [task[q] EXCEPT !.solo = FALSE]]
    /\ UNCHANGED <<initialized, nonce, writer, readers, queries, failedInit, last, order>>

\* ------------------------------------------------------------ entry points
initialize_nonce(p) == Begin(p, "initialize_nonce", NoNonce, "goi_check")

next(p) == Begin(p, "next", NoNonce, "next_lock")

fill_transaction(p) == \E e \in TxNonces : Begin(p, "fill_transaction", e, "fill_lock")

send_transaction(p) == \E e \in TxNonces : Begin(p, "send_transaction", e, "send_lock")

\* ------------------------------------------------------------ next
next_lock(p) ==
    /\ task[p].pc = "next_lock"
    /\ CanRead
    /\ readers' = readers \cup {p}
    /\ task' = [task EXCEPT ![p].pc = "next_read"]
    /\ UNCHANGED <<initialized, nonce, writer, calls, queries, failedInit, last, order>>

next_read(p) ==
    /\ task[p].pc = "next_read"
    /\ readers' = readers \ {p}
    /\ Returns(p, [task[p] EXCEPT !.pc = "done", !.result = OkNonce(nonce),
                                   !.after = nonce, !.flagAfter = initialized])
    /\ UNCHANGED <<initialized, nonce, writer, calls, queries, failedInit, order>>

\* ------------------------------------------------------------ get_or_init_nonce
\* the remote count asked for without looking at the flag
goi_check_always_queries(p) ==
    /\ task[p].pc = "goi_check"
    /\ task' = [task EXCEPT ![p] =
         IF task[p].op = "initialize_nonce"
         THEN [@ EXCEPT !.pc = "goi_query",
                        !.before = nonce, !.flagBefore = initialized]
         ELSE [@ EXCEPT !.pc = "goi_query"]]
    /\ UNCHANGED <<initialized, nonce, writer, readers, calls, queries, failedInit, last, order>>

\* line 52: the flag is loaded outside the lock
goi_check(p) ==
    /\ task[p].pc = "goi_check"
    /\ task' = [task EXCEPT ![p] =
         IF task[p].op = "initialize_nonce"
         THEN [@ EXCEPT !.pc = IF initialized THEN "goi_next" ELSE "goi_query",
                        !.before = nonce, !.flagBefore = initialized]
         ELSE [@ EXCEPT !.pc = IF initialized THEN "goi_next" ELSE "goi_query"]]
    /\ UNCHANGED <<initialized, nonce, writer, readers, calls, queries, failedInit, last, order>>

\* lines 53-57: the remote query answers r
goi_query_ok(p) ==
    /\ task[p].pc = "goi_query"
    /\ \E r \in RemoteVals :
         task' = [task EXCEPT ![p] = [@ EXCEPT !.pc = "goi_wlock", !.count = r,
                                               !.lazy = @ + 1]]
    /\ queries' = queries + 1
    /\ UNCHANGED <<initialized, nonce, writer, readers, calls, failedInit, last, order>>

\* the flag set although the remote query failed
goi_query_err_poisons(p) ==
    /\ task[p].pc = "goi_query"
    /\ \E e \in Errs :
         Returns(p, [task[p] EXCEPT !.pc = "done", !.result = FromErr(e),
                                     !.lazy = @ + 1, !.src = "lazy",
                                     !.after = nonce, !.flagAfter = TRUE])
    /\ writer' = Dropped(p)
    /\ initialized' = TRUE
    /\ failedInit' = IF failedInit < MaxCalls THEN failedInit + 1 ELSE failedInit
    /\ UNCHANGED <<nonce, readers, calls, queries>>
    /\ order' = [order EXCEPT !.chain = IF writer = p THEN FALSE ELSE @]

\* lines 53-57: the remote query fails and `?` returns the wrapped error; the
\* caller (line 104, 133) returns it in turn and drops its write guard
goi_query_err(p) ==
    /\ task[p].pc = "goi_query"
    /\ \E e \in Errs :
         Returns(p, [task[p] EXCEPT !.pc = "done", !.result = FromErr(e),
                                               !.lazy = @ + 1, !.src = "lazy",
                                               !.after = nonce,
                                               !.flagAfter = initialized])
    /\ writer' = Dropped(p)
    /\ failedInit' = IF failedInit < MaxCalls THEN failedInit + 1 ELSE failedInit
    /\ UNCHANGED <<initialized, nonce, readers, calls, queries>>
    /\ order' = [order EXCEPT !.chain = IF writer = p THEN FALSE ELSE @]

\* line 58: self.nonce.write().await
goi_wlock(p) ==
    /\ task[p].pc = "goi_wlock"
    /\ CanWrite
    /\ writer' = p
    /\ task' = [task EXCEPT ![p].pc = "goi_store"]
    /\ UNCHANGED <<initialized, nonce, readers, calls, queries, failedInit, last, order>>

\* the flag set without the count being stored
goi_store_flag_only(p) ==
    /\ task[p].pc = "goi_store"
    /\ initialized' = TRUE
    /\ writer' = 0
    /\ task' = [task EXCEPT ![p].pc = "goi_next"]
    /\ UNCHANGED <<nonce, readers, calls, queries, failedInit, last>>
    /\ order' = [order EXCEPT !.chain = FALSE]

\* lines 59-61: store the count, set the flag, drop the guard
goi_store(p) ==
    /\ task[p].pc = "goi_store"
    /\ nonce' = task[p].count
    /\ initialized' = TRUE
    /\ writer' = 0
    /\ task' = [task EXCEPT ![p].pc = "goi_next"]
    /\ UNCHANGED <<readers, calls, queries, failedInit, last>>
    /\ order' = [order EXCEPT !.chain = FALSE]

\* line 63, self.next(): self.nonce.read().await
goi_next(p) ==
    /\ task[p].pc = "goi_next"
    /\ CanRead
    /\ readers' = readers \cup {p}
    /\ task' = [task EXCEPT ![p].pc = "goi_read"]
    /\ UNCHANGED <<initialized, nonce, writer, calls, queries, failedInit, last, order>>

\* line 63-64: Ok(*read_guard) goes to the caller: initialize_nonce returns it,
\* fill_transaction and send_transaction assign it to `nonce` and to the draft
goi_read(p) ==
    /\ task[p].pc = "goi_read"
    /\ readers' = readers \ {p}
    /\ IF task[p].op = "initialize_nonce"
       THEN Returns(p, [task[p] EXCEPT !.pc = "done", !.result = OkNonce(nonce),
                                       !.after = nonce, !.flagAfter = initialized])
       ELSE /\ task' = [task EXCEPT ![p] =
                 [@ EXCEPT !.pc = IF task[p].op = "fill_transaction" THEN "fill_inner"
                                                                     ELSE "send_first",
                           !.local = nonce, !.tx = nonce, !.atInner = nonce]]
            /\ UNCHANGED last
    /\ UNCHANGED <<initialized, nonce, writer, calls, queries, failedInit, order>>

\* ------------------------------------------------------------ fill_transaction
\* the draft's own nonce taken as the working nonce
fill_lock_takes_draft(p) ==
    /\ task[p].pc = "fill_lock"
    /\ CanWrite
    /\ writer' = p
    /\ task' = [task EXCEPT ![p] =
         [@ EXCEPT !.pc = IF task[p].tx = NoNonce THEN "goi_check" ELSE "fill_inner",
                   !.local = IF task[p].tx = NoNonce THEN nonce ELSE task[p].tx,
                   !.before = nonce, !.atInner = nonce,
                   !.flagBefore = initialized,
                   !.prevSeen = order.prev, !.chained = order.chain]]
    /\ order' = [order EXCEPT !.prev = nonce]
    /\ UNCHANGED <<initialized, nonce, readers, calls, queries, failedInit, last>>

\* lines 100-106: take the write guard, read the counter, look at the draft
fill_lock(p) ==
    /\ task[p].pc = "fill_lock"
    /\ CanWrite
    /\ writer' = p
    /\ task' = [task EXCEPT ![p] =
         [@ EXCEPT !.pc = IF task[p].tx = NoNonce THEN "goi_check" ELSE "fill_inner",
                   !.local = nonce, !.before = nonce, !.atInner = nonce,
                   !.flagBefore = initialized,
                   !.prevSeen = order.prev, !.chained = order.chain]]
    /\ order' = [order EXCEPT !.prev = nonce]
    /\ UNCHANGED <<initialized, nonce, readers, calls, queries, failedInit, last>>

\* the inner fill succeeds and the counter is not written back
fill_inner_ok_keeps(p) ==
    /\ task[p].pc = "fill_inner"
    /\ writer' = Dropped(p)
    /\ Returns(p, [task[p] EXCEPT !.pc = "done", !.result = OkUnit,
                                   !.src = "fill", !.out = Raw("Ok", "unit"),
                                   !.after = nonce, !.flagAfter = initialized])
    /\ UNCHANGED <<initialized, nonce, readers, calls, queries, failedInit>>
    /\ order' = [order EXCEPT !.chain = TRUE]

\* lines 108-116: the inner fill succeeds, the counter becomes nonce + 1
fill_inner_ok(p) ==
    /\ task[p].pc = "fill_inner"
    /\ nonce' = Successor(task[p].local)
    /\ writer' = Dropped(p)
    /\ Returns(p, [task[p] EXCEPT !.pc = "done", !.result = OkUnit,
                                   !.src = "fill", !.out = Raw("Ok", "unit"),
                                   !.after = nonce',
                                            !.flagAfter = initialized])
    /\ UNCHANGED <<initialized, readers, calls, queries, failedInit>>
    /\ order' = [order EXCEPT !.chain = TRUE]

\* the counter advanced before the inner fill's error is looked at
fill_inner_err_advances(p) ==
    /\ task[p].pc = "fill_inner"
    /\ nonce' = Successor(task[p].local)
    /\ writer' = Dropped(p)
    /\ \E e \in Errs :
         Returns(p, [task[p] EXCEPT !.pc = "done", !.result = FromErr(e),
                                     !.src = "fill", !.out = Raw("Err", e),
                                     !.after = nonce', !.flagAfter = initialized])
    /\ UNCHANGED <<initialized, readers, calls, queries, failedInit>>
    /\ order' = [order EXCEPT !.chain = FALSE]

\* lines 108-112: the inner fill fails and `?` returns the wrapped error
fill_inner_err(p) ==
    /\ task[p].pc = "fill_inner"
    /\ writer' = Dropped(p)
    /\ \E e \in Errs :
         Returns(p, [task[p] EXCEPT !.pc = "done", !.result = FromErr(e),
                                     !.src = "fill", !.out = Raw("Err", e),
                                     !.after = nonce,
                                               !.flagAfter = initialized])
    /\ UNCHANGED <<initialized, nonce, readers, calls, queries, failedInit>>
    /\ order' = [order EXCEPT !.chain = FALSE]

\* ------------------------------------------------------------ send_transaction
\* lines 129-135
send_lock(p) ==
    /\ task[p].pc = "send_lock"
    /\ CanWrite
    /\ writer' = p
    /\ task' = [task EXCEPT ![p] =
         [@ EXCEPT !.pc = IF task[p].tx = NoNonce THEN "goi_check" ELSE "send_first",
                   !.local = nonce, !.before = nonce, !.atInner = nonce,
                   !.flagBefore = initialized,
                   !.prevSeen = order.prev, !.chained = order.chain]]
    /\ order' = [order EXCEPT !.prev = nonce]
    /\ UNCHANGED <<initialized, nonce, readers, calls, queries, failedInit, last>>

\* lines 137-138, 155-157: the first broadcast succeeds
send_first_ok(p) ==
    /\ task[p].pc = "send_first"
    /\ nonce' = Successor(task[p].local)
    /\ writer' = Dropped(p)
    /\ \E h \in Handles :
         Returns(p, [task[p] EXCEPT !.pc = "done", !.sends = 1,
                                               !.tx1 = task[p].tx,
                                               !.src = "send1", !.out = Raw("Ok", h),
                                               !.result = OkHandle(h),
                                               !.after = nonce',
                                               !.flagAfter = initialized])
    /\ UNCHANGED <<initialized, readers, calls, queries, failedInit>>
    /\ order' = [order EXCEPT !.chain = TRUE]

\* lines 137-139: the first broadcast fails with err
send_first_err(p) ==
    /\ task[p].pc = "send_first"
    /\ \E e \in Errs :
         task' = [task EXCEPT ![p] = [@ EXCEPT !.pc = "send_count", !.sends = 1,
                                               !.tx1 = task[p].tx,
                                               !.out = Raw("Err", e), !.err = e]]
    /\ UNCHANGED <<initialized, nonce, writer, readers, calls, queries, failedInit, last, order>>

\* the first broadcast's error returned when the remote count query fails
send_count_err_returns_first(p) ==
    /\ task[p].pc = "send_count"
    /\ writer' = Dropped(p)
    /\ \E e \in Errs :
         Returns(p, [task[p] EXCEPT !.pc = "done", !.recon = "err",
                                               !.src = "send1", !.cerr = e,
                                               !.result = FromErr(task[p].err),
                                               !.after = nonce,
                                               !.flagAfter = initialized])
    /\ UNCHANGED <<initialized, nonce, readers, calls, queries, failedInit>>
    /\ order' = [order EXCEPT !.chain = FALSE]

\* line 140: the remote count query fails and `?` returns its error
send_count_err(p) ==
    /\ task[p].pc = "send_count"
    /\ writer' = Dropped(p)
    /\ \E e \in Errs :
         Returns(p, [task[p] EXCEPT !.pc = "done", !.recon = "err",
                                               !.src = "count", !.cerr = e,
                                               !.result = FromErr(e),
                                               !.after = nonce,
                                               !.flagAfter = initialized])
    /\ UNCHANGED <<initialized, nonce, readers, calls, queries, failedInit>>
    /\ order' = [order EXCEPT !.chain = FALSE]

\* the rebroadcast given the fresh remote count as its nonce
send_count_stale_fresh(p) ==
    /\ task[p].pc = "send_count"
    /\ \E r \in RemoteVals :
         /\ Stale(r, task[p].local)
         /\ nonce' = r
         /\ task' = [task EXCEPT ![p] = [@ EXCEPT !.pc = "send_retry", !.recon = "ok",
                                                  !.count = r, !.tx = r]]
    /\ UNCHANGED <<initialized, writer, readers, calls, queries, failedInit, last, order>>

\* lines 140-143: the remote count is ahead: store it and go on to rebroadcast
send_count_stale(p) ==
    /\ task[p].pc = "send_count"
    /\ \E r \in RemoteVals :
         /\ Stale(r, task[p].local)
         /\ nonce' = r
         /\ task' = [task EXCEPT ![p] = [@ EXCEPT !.pc = "send_retry", !.recon = "ok",
                                                  !.count = r, !.tx = task[p].local]]
    /\ UNCHANGED <<initialized, writer, readers, calls, queries, failedInit, last, order>>

\* the counter advanced although the call gives up
send_count_same_advances(p) ==
    /\ task[p].pc = "send_count"
    /\ writer' = Dropped(p)
    /\ \E r \in RemoteVals :
         /\ ~Stale(r, task[p].local)
         /\ nonce' = Successor(task[p].local)
         /\ Returns(p, [task[p] EXCEPT !.pc = "done", !.recon = "ok",
                                        !.src = "send1", !.count = r,
                                        !.result = FromErr(task[p].err),
                                        !.after = nonce', !.flagAfter = initialized])
    /\ UNCHANGED <<initialized, readers, calls, queries, failedInit>>
    /\ order' = [order EXCEPT !.chain = FALSE]

\* lines 140-141, 148-153: the remote count is not ahead: the first error returns
send_count_same(p) ==
    /\ task[p].pc = "send_count"
    /\ writer' = Dropped(p)
    /\ \E r \in RemoteVals :
         /\ ~Stale(r, task[p].local)
         /\ Returns(p, [task[p] EXCEPT !.pc = "done", !.recon = "ok",
                                                  !.src = "send1", !.count = r,
                                                  !.result = FromErr(task[p].err),
                                                  !.after = nonce,
                                                  !.flagAfter = initialized])
    /\ UNCHANGED <<initialized, nonce, readers, calls, queries, failedInit>>
    /\ order' = [order EXCEPT !.chain = FALSE]

\* lines 144-147, 153-157: the rebroadcast succeeds
send_retry_ok(p) ==
    /\ task[p].pc = "send_retry"
    /\ nonce' = Successor(task[p].local)
    /\ writer' = Dropped(p)
    /\ \E h \in Handles :
         Returns(p, [task[p] EXCEPT !.pc = "done", !.sends = 2,
                                               !.retx = task[p].tx,
                                               !.src = "send2", !.out = Raw("Ok", h),
                                               !.result = OkHandle(h),
                                               !.after = nonce',
                                               !.flagAfter = initialized])
    /\ UNCHANGED <<initialized, readers, calls, queries, failedInit>>
    /\ order' = [order EXCEPT !.chain = TRUE]

\* lines 144-147, 153: the rebroadcast fails and `?` returns the second error
send_retry_err(p) ==
    /\ task[p].pc = "send_retry"
    /\ writer' = Dropped(p)
    /\ \E e \in Errs :
         Returns(p, [task[p] EXCEPT !.pc = "done", !.sends = 2,
                                               !.retx = task[p].tx,
                                               !.src = "send2", !.out = Raw("Err", e),
                                               !.result = FromErr(e),
                                               !.after = nonce,
                                               !.flagAfter = initialized])
    /\ UNCHANGED <<initialized, nonce, readers, calls, queries, failedInit>>
    /\ order' = [order EXCEPT !.chain = FALSE]

\* ------------------------------------------------------------ specification
\* the steps of a call in progress
Step(p) ==
    \/ next_lock(p) \/ next_read(p)
    \/ goi_check(p) \/ goi_query_ok(p) \/ goi_query_err(p)
    \/ goi_wlock(p) \/ goi_store(p) \/ goi_next(p) \/ goi_read(p)
    \/ fill_lock(p) \/ fill_inner_ok(p) \/ fill_inner_err(p)
    \/ send_lock(p) \/ send_first_ok(p) \/ send_first_err(p)
    \/ send_count_err(p) \/ send_count_stale(p) \/ send_count_same(p)
    \/ send_retry_ok(p) \/ send_retry_err(p)

Next ==
    \E p \in Tasks :
        \/ initialize_nonce(p) \/ next(p) \/ fill_transaction(p) \/ send_transaction(p)
        \/ Step(p)

Spec == Init /\ [][Next]_vars

\* ------------------------------------------------------------ properties

\* the calls in progress
InFlight == {p \in Tasks : task[p].op # "none"}

\* C1: sequential fills on a fresh manager, the drafts carrying no nonce: each
\* call completes (while it is the only call in progress it can always take
\* its next step), and a completed call has put the lazily read counter on the
\* draft and left the counter one above it.
C1_SequentialFillsComplete ==
    /\ \A p \in Tasks :
         (/\ task[p].op = "fill_transaction"
          /\ task[p].arg = NoNonce
          /\ InFlight = {p})
         => ENABLED Step(p)
    /\ (/\ last.op = "fill_transaction"
        /\ last.arg = NoNonce
        /\ last.result.kind = "Ok")
       => (last.tx = last.local /\ last.after = last.tx + 1)

\* C2: concurrent send_transaction calls whose transactions carry no nonce all
\* complete: while two or more such calls, and no others, are in progress, one
\* of them can take a step.
C2_ConcurrentSendsComplete ==
    (/\ Cardinality(InFlight) >= 2
     /\ \A p \in InFlight : task[p].op = "send_transaction" /\ task[p].arg = NoNonce)
    => \E p \in InFlight : ENABLED Step(p)

\* C3: the remote query of get_or_init_nonce succeeds at most once over the
\* manager's lifetime.
C3_AtMostOneInitQuery == queries <= 1

\* C4: after a failed first broadcast and a remote count R above the stored
\* value L, the stored value is R while the rebroadcast runs and is R when the
\* call returns, whatever the rebroadcast's outcome.
C4_RecoveryLeavesRemoteCount ==
    /\ \A p \in Tasks : task[p].pc = "send_retry" => nonce = task[p].count
    /\ (/\ last.op = "send_transaction"
        /\ last.err # ""
        /\ last.recon = "ok"
        /\ last.count > last.before)
       => last.after = last.count

\* C5: a send_transaction call broadcasts at most twice; it broadcasts twice
\* exactly when the first broadcast failed and the remote count exceeds the
\* local nonce; and what it then returns is the second broadcast's outcome.
C5_AtMostOneRetry ==
    /\ \A p \in Tasks : task[p].sends <= 2
    /\ last.op = "send_transaction" =>
         /\ last.sends <= 2
         /\ (last.sends = 2) <=>
              (last.err # "" /\ last.recon = "ok" /\ last.count > last.local)
         /\ last.sends = 2 =>
              /\ last.src = "send2"
              /\ last.result = IF last.out.kind = "Ok" THEN OkHandle(last.out.tag)
                                                       ELSE FromErr(last.out.tag)

C5_Witness ==
    /\ last.op = "send_transaction"
    /\ last.sends = 2
    /\ last.out.kind = "Err"
    /\ last.out.tag # last.err

\* C6: a failed first broadcast followed by a remote count R <= L, L the stored
\* value: the call returns the first broadcast's error, wrapped and otherwise
\* unchanged, broadcasts once only, and leaves the stored value L.
C6_NoRecovery ==
    (/\ last.op = "send_transaction"
     /\ last.err # ""
     /\ last.recon = "ok"
     /\ last.count <= last.before)
    => /\ last.result = FromErr(last.err)
       /\ last.sends = 1
       /\ last.after = last.before

C6_Witness ==
    /\ last.op = "send_transaction"
    /\ last.err # ""
    /\ last.recon = "ok"
    /\ last.count < last.before
    /\ last.result = FromErr(last.err)

\* C7: when the inner fill_transaction fails, fill_transaction returns that
\* error and the stored value is the one it was when the inner fill was called
\* (the one before the call when the manager was initialized or the draft
\* carried a nonce); the draft keeps its nonce, so a retry gets the same one.
C7_FailedFillKeepsCounter ==
    (/\ last.op = "fill_transaction"
     /\ last.src = "fill"
     /\ last.out.kind = "Err")
    => /\ last.result = FromErr(last.out.tag)
       /\ last.after = last.atInner
       /\ (last.flagBefore \/ last.arg # NoNonce) => last.after = last.before
       /\ last.tx = IF last.arg = NoNonce THEN last.atInner ELSE last.arg

C7_Witness ==
    /\ last.op = "fill_transaction"
    /\ last.src = "fill"
    /\ last.out.kind = "Err"
    /\ last.before > 0
    /\ last.after = last.before

C9_ExplicitFillAdvancesByOne ==
    (/\ last.op = "fill_transaction"
     /\ last.arg # NoNonce
     /\ last.result.kind = "Ok")
    => /\ last.after = last.before + 1
       /\ last.tx = last.arg
       /\ last.lazy = 0
       /\ last.flagAfter = last.flagBefore

C9_Witness ==
    /\ last.op = "fill_transaction"
    /\ last.arg = 2
    /\ last.result.kind = "Ok"
    /\ last.before = 0
    /\ last.after = 1
    /\ ~last.flagAfter
    /\ ~initialized

\* C10: when the first broadcast succeeds, send_transaction returns the inner
\* middleware's handle, the stored value becomes local + 1, local being the
\* counter read at the start of the call, and no remote count is asked for.
C10_FirstBroadcastSucceeds ==
    (/\ last.op = "send_transaction"
     /\ last.sends = 1
     /\ last.out.kind = "Ok")
    => /\ last.result = OkHandle(last.out.tag)
       /\ last.after = last.local + 1
       /\ last.arg # NoNonce => last.local = last.before
       /\ last.recon = "none"

C10_Witness ==
    /\ last.op = "send_transaction"
    /\ last.sends = 1
    /\ last.out.kind = "Ok"
    /\ last.result.tag = "h2"
    /\ last.before = 1

\* the calls between taking the write guard (line 100, 129, 58) and dropping it
WriteRegion ==
    {p \in Tasks :
        \/ task[p].pc \in {"goi_store", "fill_inner", "send_first", "send_count",
                           "send_retry"}
        \/ /\ task[p].op \in {"fill_transaction", "send_transaction"}
           /\ task[p].pc \in {"goi_check", "goi_query", "goi_wlock", "goi_next",
                              "goi_read"}}

\* the calls between taking a read guard (line 43) and dropping it
ReadRegion == {p \in Tasks : task[p].pc \in {"next_read", "goi_read"}}

\* C11: every call between its taking of the write guard and its return is the
\* one holder of the lock, through every inner call it waits for; every read of
\* the counter by next() is made under a read guard; and no read guard is held
\* while a write guard is.
C11_MutualExclusion ==
    /\ \A p \in WriteRegion : writer = p
    /\ \A p \in ReadRegion : p \in readers
    /\ readers \subseteq ReadRegion
    /\ writer # 0 => (readers = {} /\ writer \in WriteRegion)

C11_Witness ==
    \E p, q \in Tasks :
        /\ p # q
        /\ writer = p
        /\ task[p].pc = "send_retry"
        /\ task[q].pc \in {"next_lock", "fill_lock", "send_lock"}

\* "never two read guards at once": TLC refutes it, two next() calls do hold
\* shared access together
C11_NeverTwoReaders == Cardinality(readers) < 2

\* the fill/send calls that have read the counter under the write guard
Holders ==
    {p \in WriteRegion : task[p].op \in {"fill_transaction", "send_transaction"}}

C13_InitializeIdempotent ==
    (/\ last.op = "initialize_nonce"
     /\ last.solo
     /\ last.result.kind = "Ok")
    => /\ last.flagAfter
       /\ last.result = OkNonce(last.after)
       /\ ~last.flagBefore => (last.lazy = 1 /\ last.after = last.count)
       /\ last.flagBefore => (last.lazy = 0 /\ last.after = last.before)

C13_Witness ==
    /\ last.op = "initialize_nonce"
    /\ last.solo
    /\ last.flagBefore
    /\ last.lazy = 0
    /\ last.result = OkNonce(2)
    /\ queries = 1
    /\ calls = 2

\* C14: the flag starts false with stored value 0; it never goes back to
\* false, so it turns true at most once; and the step that turns it true is
\* the store of a successfully fetched remote count into the stored value.
C14_FlagMonotone ==
    /\ (initialized = FALSE /\ nonce = 0)
    /\ [][/\ initialized => initialized'
          /\ (~initialized /\ initialized')
               => /\ queries >= 1
                  /\ \E p \in Tasks : /\ task[p].pc = "goi_store"
                                      /\ task'[p].pc = "goi_next"
                                      /\ nonce' = task[p].count]_vars

C14_Witness ==
    /\ initialized
    /\ queries = 1
    /\ nonce = 2
    /\ last.op = "initialize_nonce"
    /\ last.result = OkNonce(2)

\* C15 (as stated): next() on a manager whose flag is false returns 0.
C15_UninitializedPeekIsZero ==
    (last.op = "next" /\ ~last.flagAfter) => last.result = OkNonce(0)

\* C15 (amended): every step of a next() call is taken while no writer holds
\* the lock and leaves the stored value, the flag, the lock's writer and the
\* number of remote queries as they are; the call makes no inner-submitter
\* call and returns the stored value as it is when the read guard is held.
C15_PeekFrame ==
    [][\A p \in Tasks :
         (task[p].op = "next" /\ task'[p].pc # task[p].pc)
           => /\ writer = 0
              /\ UNCHANGED <<nonce, initialized, writer, queries, failedInit>>
              /\ task[p].pc = "next_read"
                   => /\ p \in readers
                      /\ last'.op = "next"
                      /\ last'.result = OkNonce(nonce)
                      /\ last'.lazy = 0
                      /\ last'.sends = 0
                      /\ last'.recon = "none"]_vars

C15_Witness ==
    /\ last.op = "next"
    /\ ~last.flagAfter
    /\ last.result = OkNonce(1)
    /\ queries = 0
    /\ nonce = 1

\* C16: a fill_transaction or send_transaction call on a draft with no
\* explicit nonce never stands at the lock acquisitions of its
\* lazy-initialization step while holding the write lock itself.
C16_NoSelfWait ==
    \A p \in Tasks :
        (/\ task[p].op \in {"fill_transaction", "send_transaction"}
         /\ task[p].arg = NoNonce
         /\ task[p].pc \in {"goi_wlock", "goi_next"})
        => writer # p

\* C17 (as stated): a rebroadcast carries the nonce of the call's first
\* broadcast.
C17_RetryCarriesFirstNonce ==
    last.sends = 2 => last.retx = last.tx1

\* C17 (amended): a rebroadcast carries the stored value the call read when it
\* took the lock; that is the first broadcast's nonce exactly when the
\* draft's explicit nonce equals that stored value.
C17_RetryCarriesLocalNonce ==
    last.sends = 2
      => /\ last.retx = last.before
         /\ last.retx = last.local
         /\ last.tx1 = last.arg
         /\ (last.retx = last.tx1) <=> (last.arg = last.before)

C17_Witness ==
    /\ last.sends = 2
    /\ last.arg = 2
    /\ last.tx1 = 2
    /\ last.before = 0
    /\ last.retx = 0

\* the stored value as it was when the lock was last free
Base ==
    IF writer # 0 /\ task[writer].op \in {"fill_transaction", "send_transaction"}
    THEN task[writer].before
    ELSE nonce

\* C18 (as stated): whenever a step leaves the lock free, the stored value is
\* no lower than it was when the lock was last free.
C18_NeverDecreases ==
    [][writer' = 0 => nonce' >= Base]_vars

\* C18 (amended): the same, for every step other than the store of a fetched
\* remote count by get_or_init_nonce: fill_transaction and send_transaction
\* never leave the stored value lower than they found it.
C18_OnlyInitStoreLowers ==
    [][(/\ writer' = 0
        /\ ~\E p \in Tasks : task[p].pc = "goi_store" /\ task'[p].pc = "goi_next")
       => nonce' >= Base]_vars

C18_Witness ==
    /\ writer = 0
    /\ last.op = "send_transaction"
    /\ last.sends = 2
    /\ last.result.kind = "MiddlewareError"
    /\ last.before = 1
    /\ last.after = 2
    /\ nonce = 2

\* C19: the store of a fetched remote count is made only while the flag is
\* false.
C19_NoStoreOnceInitialized ==
    [][\A p \in Tasks :
         (task[p].pc = "goi_store" /\ task'[p].pc = "goi_next") => ~initialized]_vars

\* C20 (as stated): when the first broadcast fails and the remote count query
\* fails, the call returns the first broadcast's error, having broadcast
\* once and left the stored value and the flag as they were.
C20_ReturnsBroadcastError ==
    last.recon = "err"
      => /\ last.result = FromErr(last.err)
         /\ last.sends = 1
         /\ last.after = last.before
         /\ last.flagAfter = last.flagBefore

\* C20 (amended): in that case the call returns the remote count query's
\* error, having broadcast once and left the stored value and the flag as
\* they were.
C20_ReturnsQueryError ==
    last.recon = "err"
      => /\ last.result = FromErr(last.cerr)
         /\ last.src = "count"
         /\ last.sends = 1
         /\ last.retx = NoNonce
         /\ last.after = last.before
         /\ last.flagAfter = last.flagBefore

C20_Witness ==
    /\ last.op = "send_transaction"
    /\ last.recon = "err"
    /\ last.err = "e1"
    /\ last.cerr = "e2"
    /\ last.result = FromErr("e2")

====
